---- MODULE Spec2Model ----
(***************************************************************************)
(* A state-machine model of polyfuse's FUSE session                        *)
(* (crates/polyfuse/src/session.rs): the configuration builder, the INIT   *)
(* handshake (init / try_init) and the request loop (next_request).        *)
(*                                                                         *)
(* Conventions                                                             *)
(*  - A capability bitmap (u32) is the set of its bit positions 0..31:     *)
(*    `a & b` is intersection, `a | b` union, `a & !b` difference.         *)
(*  - A u32 / usize that can exceed a 32-bit signed integer is the pair     *)
(*    <<hi, lo>> of its 16-bit limbs (value = hi * 65536 + lo).            *)
(*  - Option<T> is a sequence of length at most one: None is <<>> and      *)
(*    Some(x) is <<x>>.                                                    *)
(*  - Arithmetic wraps at the width of its type (the release profile:      *)
(*    overflow checks off, debug_assert! compiled out).                    *)
(***************************************************************************)
EXTENDS Integers, Sequences, FiniteSets, TLC

(***************************************************************************)
(* Program constants                                                       *)
(***************************************************************************)
MINIMUM_SUPPORTED_MINOR_VERSION == 23
MAX_MAX_PAGES == 256
FUSE_KERNEL_VERSION == 7
FUSE_KERNEL_MINOR_VERSION == 31
pagesize == 4096

\* errno values (libc)
ENOENT == 2
EINTR == 4
EIO == 5
ENODEV == 19
EPROTO == 71

\* opcodes (polyfuse_kernel::fuse_opcode)
FUSE_LOOKUP == 1
FUSE_INIT == 26
FUSE_GETATTR == 3
FUSE_OPEN == 14
FUSE_READ == 15
FUSE_READDIR == 28
OPCODE_UNKNOWN == 9999
ENOSYS == 38
EISDIR == 21
ENOTDIR == 20
ROOT_INO == 1
HELLO_INO == 2

\* sizes of the wire structs, in bytes
IN_HEADER_SIZE == 40
INIT_IN_SIZE == 16

\* capability bits, by bit position (kernel::FUSE_* is 1 << position)
FUSE_ASYNC_READ == 0
FUSE_POSIX_LOCKS == 1
FUSE_ATOMIC_O_TRUNC == 3
FUSE_EXPORT_SUPPORT == 4
FUSE_BIG_WRITES == 5
FUSE_DONT_MASK == 6
FUSE_FLOCK_LOCKS == 10
FUSE_AUTO_INVAL_DATA == 12
FUSE_DO_READDIRPLUS == 13
FUSE_READDIRPLUS_AUTO == 14
FUSE_ASYNC_DIO == 15
FUSE_WRITEBACK_CACHE == 16
FUSE_NO_OPEN_SUPPORT == 17
FUSE_PARALLEL_DIROPS == 18
FUSE_HANDLE_KILLPRIV == 19
FUSE_POSIX_ACL == 20
FUSE_MAX_PAGES == 22
FUSE_NO_OPENDIR_SUPPORT == 24

(***************************************************************************)
(* Bounds of the model                                                     *)
(***************************************************************************)
\* Config setter calls made before Session::start
MaxConfigCalls == 1
\* rounds of the heartbeat task
MaxBeats == 2
\* Getattr and Read requests the heartbeat filesystem reads
MaxHeartbeatRequests == 2
\* calls of Buffer::receive
MaxReceives == 3
\* failed reads one Buffer::receive call retries
MaxRetries == 2
\* setter calls chained on one Config in the runs about the setters alone
MaxSetterCalls == 3
\* read outcomes (frames and errors) the kernel hands over in one run
MaxSent == 4
\* read outcomes that can be pending in the kernel channel
MaxChan == 1

(***************************************************************************)
(* Two-limb unsigned numbers                                               *)
(***************************************************************************)
Limb == 2 ^ 16

U32_MAX == <<65535, 65535>>

Wide(n) == <<n \div Limb, n % Limb>>

WideLt(a, b) == a[1] < b[1] \/ (a[1] = b[1] /\ a[2] < b[2])

\* std::cmp::min
WideMin(a, b) == IF WideLt(b, a) THEN b ELSE a

\* a + b in usize (64 bits: no carry out of the high limb for 32-bit operands)
WideAdd(a, b) ==
    LET lo == a[2] + b[2]
    IN  <<a[1] + b[1] + (lo \div Limb), lo % Limb>>

(***************************************************************************)
(* CapabilityFlags (bitflags!)                                             *)
(***************************************************************************)
\* CapabilityFlags::all(): the bits the bitflags! block declares
CapabilityFlags_all ==
    { FUSE_ASYNC_READ, FUSE_ATOMIC_O_TRUNC, FUSE_AUTO_INVAL_DATA, FUSE_ASYNC_DIO,
      FUSE_PARALLEL_DIROPS, FUSE_HANDLE_KILLPRIV, FUSE_POSIX_LOCKS,
      FUSE_FLOCK_LOCKS, FUSE_EXPORT_SUPPORT, FUSE_DONT_MASK,
      FUSE_WRITEBACK_CACHE, FUSE_POSIX_ACL, FUSE_DO_READDIRPLUS,
      FUSE_READDIRPLUS_AUTO }

\* CapabilityFlags::from_bits_truncate
from_bits_truncate(bits) == bits \cap CapabilityFlags_all

\* impl Default for CapabilityFlags
CapabilityFlags_default ==
    { FUSE_ASYNC_READ, FUSE_PARALLEL_DIROPS, FUSE_AUTO_INVAL_DATA,
      FUSE_HANDLE_KILLPRIV, FUSE_ASYNC_DIO, FUSE_ATOMIC_O_TRUNC }

(***************************************************************************)
(* Config                                                                  *)
(***************************************************************************)
DEFAULT_MAX_WRITE == <<256, 0>>      \* 16 * 1024 * 1024

BUFFER_HEADER_SIZE == <<0, 4096>>    \* 0x1000

\* impl Default for Config
Config_default ==
    [ max_readahead        |-> U32_MAX,
      flags                |-> CapabilityFlags_default,
      max_background       |-> 0,
      congestion_threshold |-> 0,
      max_write            |-> DEFAULT_MAX_WRITE,
      time_gran            |-> 1,
      max_pages            |-> 0 ]

(***************************************************************************)
(* Wire frames                                                             *)
(***************************************************************************)
\* What a frame carries after its header when it carries nothing the
\* handshake decodes.
NoArg == [major |-> 0, minor |-> 0, max_readahead |-> <<0, 0>>, flags |-> {}]

\* A request datagram: `len` bytes, of which the first IN_HEADER_SIZE are the
\* fuse_in_header (opcode, unique) and the next INIT_IN_SIZE are `arg`, the
\* bytes a fuse_init_in occupies (for another opcode: its payload bytes).
Frame(opcode, unique, len, arg) ==
    [opcode |-> opcode, unique |-> unique, len |-> len, arg |-> arg]

\* The result of one read() on the kernel channel: Ok(frame) or Err(errno).
OkRead(frame) == [errno |-> 0, frame |-> frame]

ErrRead(errno) == [errno |-> errno, frame |-> Frame(0, 0, 0, NoArg)]

\* kernel::fuse_init_out::default()
fuse_init_out_default ==
    [ major |-> 0, minor |-> 0, max_readahead |-> <<0, 0>>, flags |-> {},
      max_background |-> 0, congestion_threshold |-> 0,
      max_write |-> <<0, 0>>, time_gran |-> 0, max_pages |-> 0 ]

\* write::send_reply: a reply frame with error = 0 and the given body
send_reply(unique, body) == [unique |-> unique, error |-> 0, body |-> <<body>>]

\* write::send_error: a reply frame with error = -errno and an empty body
send_error(unique, errno) == [unique |-> unique, error |-> 0 - errno, body |-> <<>>]

(***************************************************************************)
(* try_init                                                                *)
(***************************************************************************)
\* The bytes of the bootstrap buffer the handshake decodes.  init() reads
\* into the whole buffer and hands the whole buffer to try_init: a read of
\* `len` bytes overwrites the first `len` bytes and leaves the rest as they
\* were.
buf_zeroed == [opcode |-> 0, unique |-> 0, arg |-> NoArg]

read_into(buf, frame) ==
    [ opcode |-> IF frame.len >= IN_HEADER_SIZE THEN frame.opcode ELSE buf.opcode,
      unique |-> IF frame.len >= IN_HEADER_SIZE THEN frame.unique ELSE buf.unique,
      arg    |-> IF frame.len >= IN_HEADER_SIZE + INIT_IN_SIZE
                 THEN frame.arg ELSE buf.arg ]

\* let capable = CapabilityFlags::from_bits_truncate(init_in.flags)
capable(init_in) == from_bits_truncate(init_in.flags)

\* let readonly_flags = init_in.flags & !CapabilityFlags::all().bits()
readonly_flags(init_in) == init_in.flags \ CapabilityFlags_all

\* version_check without the `major > 7` branch, the too-old test being
\* major < 7 || (major == 7 && minor < 23)
version_check_no_future(init_in) ==
    IF init_in.major < 7
          \/ (init_in.major = 7 /\ init_in.minor < MINIMUM_SUPPORTED_MINOR_VERSION)
    THEN "unsupported"
    ELSE "negotiate"

\* version_check with the too-old test made on the major alone
version_check_no_minor(init_in) ==
    IF init_in.major > 7 THEN "future"
    ELSE IF init_in.major < 7 THEN "unsupported"
         ELSE "negotiate"

\* version_check with the future-version test off by one
version_check_future_off_by_one(init_in) ==
    IF init_in.major > 8 THEN "future"
    ELSE IF init_in.major < 7 \/ init_in.minor < MINIMUM_SUPPORTED_MINOR_VERSION
         THEN "unsupported"
         ELSE "negotiate"

\* The version branches of try_init, in the order the code tests them.
version_check(init_in) ==
    IF init_in.major > 7 THEN "future"
    ELSE IF init_in.major < 7 \/ init_in.minor < MINIMUM_SUPPORTED_MINOR_VERSION
         THEN "unsupported"
         ELSE "negotiate"

\* init_out as first built: major and minor of this implementation
init_out_base ==
    [fuse_init_out_default EXCEPT !.major = FUSE_KERNEL_VERSION,
                                  !.minor = FUSE_KERNEL_MINOR_VERSION]

\* negotiated_minor without the min: the kernel's minor is echoed
negotiated_minor_echo(init_in) == init_in.minor

\* init_out.minor = min(init_out.minor, init_in.minor)
negotiated_minor(init_in) ==
    IF init_in.minor < FUSE_KERNEL_MINOR_VERSION
    THEN init_in.minor ELSE FUSE_KERNEL_MINOR_VERSION

\* negotiated_flags with `init_out.flags |= readonly_flags` moved before the
\* reply is sent
negotiated_flags_readonly_first(config, init_in) ==
    (((config.flags \cap capable(init_in)) \cup {FUSE_BIG_WRITES})
        \cup (IF FUSE_MAX_PAGES \in init_in.flags THEN {FUSE_MAX_PAGES} ELSE {}))
        \cup readonly_flags(init_in)

\* init_out.flags as sent: (config.flags & capable) | BIG_WRITES, and
\* MAX_PAGES when the kernel set it
negotiated_flags(config, init_in) ==
    ((config.flags \cap capable(init_in)) \cup {FUSE_BIG_WRITES})
        \cup (IF FUSE_MAX_PAGES \in init_in.flags THEN {FUSE_MAX_PAGES} ELSE {})

\* (a - 1) in u32, wrapping
WideDec(a) ==
    IF a[2] > 0 THEN <<a[1], a[2] - 1>>
    ELSE IF a[1] > 0 THEN <<a[1] - 1, Limb - 1>>
    ELSE U32_MAX

\* a / pagesize for a u32 a; the quotient is below 2^20
WideDivPage(a) == a[1] * (Limb \div pagesize) + (a[2] \div pagesize)

\* min((max_write - 1) / pagesize + 1, u16::MAX) as u16
negotiated_max_pages(max_write) ==
    LET pages == WideDivPage(WideDec(max_write)) + 1
    IN  IF pages < 65535 THEN pages ELSE 65535

\* init_out as sent in the INIT reply
negotiate(config, init_in) ==
    [ major                |-> init_out_base.major,
      minor                |-> negotiated_minor(init_in),
      max_readahead        |-> WideMin(config.max_readahead, init_in.max_readahead),
      flags                |-> negotiated_flags(config, init_in),
      max_background       |-> config.max_background,
      congestion_threshold |-> config.congestion_threshold,
      max_write            |-> config.max_write,
      time_gran            |-> config.time_gran,
      max_pages            |-> IF FUSE_MAX_PAGES \in init_in.flags
                               THEN negotiated_max_pages(config.max_write)
                               ELSE init_out_base.max_pages ]

\* stored_init_out keeping the flags as sent
stored_init_out_as_sent(init_out, init_in) == init_out

\* init_out.flags |= readonly_flags, after the reply was sent
stored_init_out(init_out, init_in) ==
    [init_out EXCEPT !.flags = init_out.flags \cup readonly_flags(init_in)]

\* new_session sizing the buffer for DEFAULT_MAX_WRITE
new_session_default_write(init_out) ==
    [ conn    |-> init_out,
      bufsize |-> WideAdd(BUFFER_HEADER_SIZE, DEFAULT_MAX_WRITE),
      exited  |-> FALSE ]

\* Session { conn: ConnectionInfo(init_out), bufsize, exited: false }
new_session(init_out) ==
    [ conn    |-> init_out,
      bufsize |-> WideAdd(BUFFER_HEADER_SIZE, init_out.max_write),
      exited  |-> FALSE ]

\* other_opcode_reply with a unique of 0
other_opcode_reply_no_unique(unique) == send_error(0, EIO)

\* other_opcode_reply answering with the handshake's own EPROTO
other_opcode_reply_eproto(unique) == send_error(unique, EPROTO)

\* The `_` arm of the match on the opcode: write::send_error(.., EIO)
other_opcode_reply(unique) == send_error(unique, EIO)

\* One call of try_init on the buffer `buf`; `write_ok` is whether the
\* writer accepts the frame.  `reply` is the frame handed to the writer,
\* `result` is "session" (Ok(Some)), "retry" (Ok(None)) or "error" (Err).
try_init(config, buf, write_ok) ==
    LET unique  == buf.unique
        init_in == buf.arg
        done(reply, ok_result, session) ==
            [ reply   |-> reply,
              result  |-> IF write_ok THEN ok_result ELSE "error",
              session |-> IF write_ok THEN session ELSE <<>> ]
    IN  IF buf.opcode = FUSE_INIT
        THEN CASE version_check(init_in) = "future" ->
                    done(send_reply(unique, init_out_base), "retry", <<>>)
               [] version_check(init_in) = "unsupported" ->
                    done(send_error(unique, EPROTO), "retry", <<>>)
               [] OTHER ->
                    LET init_out == negotiate(config, init_in)
                    IN  done(send_reply(unique, init_out), "session",
                             <<new_session(stored_init_out(init_out, init_in))>>)
        ELSE done(other_opcode_reply(unique), "retry", <<>>)

(***************************************************************************)
(* ConnectionInfo                                                          *)
(***************************************************************************)
\* ConnectionInfo::no_open_support
no_open_support(conn) == FUSE_NO_OPEN_SUPPORT \in conn.flags

\* ConnectionInfo::no_opendir_support
no_opendir_support(conn) == FUSE_NO_OPENDIR_SUPPORT \in conn.flags

\* ConnectionInfo::max_pages
max_pages(conn) == IF FUSE_MAX_PAGES \in conn.flags THEN <<conn.max_pages>> ELSE <<>>

(***************************************************************************)
(* Config setters                                                          *)
(***************************************************************************)
\* Config::max_write
Config_max_write(c, value) == [c EXCEPT !.max_write = value]

\* Config::max_background
Config_max_background(c, value) == [c EXCEPT !.max_background = value]

\* congestion_threshold_accepts without the assert!
congestion_threshold_accepts_always(c, threshold) == TRUE

\* the assert! of Config::congestion_threshold
congestion_threshold_accepts(c, threshold) == threshold <= c.max_background

\* Config::congestion_threshold, past its assert!; the product is a u16
Config_congestion_threshold(c, threshold) ==
    [c EXCEPT !.congestion_threshold =
        IF threshold = 0
        THEN ((c.max_background * 3) % Limb) \div 4
        ELSE threshold]

(***************************************************************************)
(* next_request                                                            *)
(***************************************************************************)
\* next_request_on_error with the ENOENT arm lost
next_request_on_error_no_enoent(errno) ==
    IF errno = ENODEV THEN "eof" ELSE "error"

\* next_request_on_error retrying every error but ENODEV
next_request_on_error_retry_all(errno) ==
    IF errno = ENODEV THEN "eof" ELSE "retry"

\* The match on err.raw_os_error() of a failed read: "eof" is
\* `return Ok(None)`, "retry" is `continue`, "error" is `return Err(err)`.
next_request_on_error(errno) ==
    IF errno = ENODEV THEN "eof"
    ELSE IF errno = ENOENT THEN "retry"
    ELSE "error"

\* next_request_on_ok taking a read of no bytes for the end of the stream
next_request_on_ok_eof_on_zero(len) == IF len = 0 THEN "eof" ELSE "yield"

\* The Ok(len) arm of the read: buf.set_len(len); break; and the Request is
\* returned ("yield"), whatever len is.
next_request_on_ok(len) == "yield"

\* request_buf_len without the set_len
request_buf_len_keeps_capacity(bufsize, len) == bufsize

\* The length of the Vec the Request owns: vec![0u8; self.bufsize], then
\* buf.set_len(len) with the count the read returned.
request_buf_len(bufsize, len) == Wide(len)

\* on_enodev shrinking the receive buffer size
on_enodev_resets(s) == [s EXCEPT !.bufsize = <<0, 0>>]

\* The Session after the ENODEV arm, which logs and returns Ok(None).
on_enodev(s) == s

\* on_cancel with a guard that marks the Session exited
on_cancel_exits(s) == [s EXCEPT !.exited = TRUE]

\* The Session after the future of next_request is dropped while suspended
\* in the read: the future owns `conn` and the local `buf` and nothing else.
on_cancel(s) == s

\* Session::exited
exited(s) == s.exited

\* exit storing the negation of the flag
exit_toggle(s) == [s EXCEPT !.exited = ~s.exited]

\* Session::exit: self.exited.store(true)
exit(s) == [s EXCEPT !.exited = TRUE]

(***************************************************************************)
(* The inputs of the model                                                 *)
(***************************************************************************)
\* values passed to the Config setters
MaxWriteValues == { <<0, 0>>, <<0, 4097>>, U32_MAX }

MaxBackgroundValues == { 4, 30000 }

CongestionThresholdValues == { 0, 3, 9 }

ConfigFlagValues == { FUSE_ASYNC_READ, FUSE_POSIX_LOCKS }

\* the INIT arguments the kernel sends: versions this implementation
\* negotiates with, each with every flag set, and versions it turns down
NegotiableVersions == { <<7, 23>>, <<7, 35>> }

OtherVersions == { <<6, 31>>, <<7, 22>>, <<8, 0>> }

KernelFlagSets ==
    { {FUSE_ASYNC_READ, FUSE_POSIX_LOCKS, FUSE_BIG_WRITES, FUSE_MAX_PAGES,
       FUSE_NO_OPEN_SUPPORT},
      {FUSE_POSIX_LOCKS, FUSE_NO_OPENDIR_SUPPORT} }

InitArg(v, f) ==
    [major |-> v[1], minor |-> v[2], max_readahead |-> <<2, 0>>, flags |-> f]

KernelInitArgs ==
    { InitArg(v, f) : v \in NegotiableVersions, f \in KernelFlagSets }
    \cup { InitArg(v, {FUSE_ASYNC_READ, FUSE_NO_OPEN_SUPPORT}) : v \in OtherVersions }

\* payload bytes of a non-INIT frame that happen to read as a fuse_init_in
PayloadArg ==
    [major |-> 7, minor |-> 31, max_readahead |-> <<2, 0>>,
     flags |-> {FUSE_ASYNC_READ, FUSE_MAX_PAGES}]

\* the frames the kernel can deliver while the daemon is in the handshake
HandshakeFrames(unique) ==
    { Frame(FUSE_INIT, unique, IN_HEADER_SIZE + INIT_IN_SIZE, a) : a \in KernelInitArgs }
    \cup { Frame(FUSE_INIT, unique, IN_HEADER_SIZE, NoArg),
           Frame(FUSE_LOOKUP, unique, IN_HEADER_SIZE, NoArg),
           Frame(FUSE_LOOKUP, unique, IN_HEADER_SIZE + INIT_IN_SIZE, PayloadArg) }

\* the frames the kernel can deliver to the request loop
RequestFrames(unique) ==
    { Frame(FUSE_LOOKUP, unique, n, NoArg) : n \in {0, IN_HEADER_SIZE} }

\* the errors a read can fail with
ReadErrnos == { ENODEV, ENOENT, EINTR, EIO }

(***************************************************************************)
(* Buffer (src/buffer.rs)                                                  *)
(***************************************************************************)
\* recv_buf.len() after set_len(capacity()): RECV_BUF_SIZE, whatever it is
Capacity == [capacity |-> TRUE, bytes |-> 0]

\* recv_buf.len() after set_len(n)
Bytes(n) == [capacity |-> FALSE, bytes |-> n]

\* Buffer::receive: the arm the outcome of io.read takes; "ok" returns
\* Ok(false), "retry" is `continue`, "closed" returns Ok(true), "error"
\* returns Err(err).
receive_arm(errno) ==
    IF errno = 0 THEN "ok"
    ELSE IF errno \in {ENOENT, EINTR} THEN "retry"
    ELSE IF errno = ENODEV THEN "closed"
    ELSE "error"

\* receive_set_len leaving the length alone on ENODEV
receive_set_len_closed_unrestored(arm, old, count) ==
    CASE arm = "ok"    -> Bytes(count)
      [] arm = "error" -> old
      [] OTHER         -> Capacity

\* Buffer::receive: recv_buf.len() as the arm leaves it: set_len(count),
\* set_len(old_len), or untouched (at the capacity) when it loops.
receive_set_len(arm, old, count) ==
    CASE arm = "ok"     -> Bytes(count)
      [] arm = "closed" -> old
      [] arm = "error"  -> old
      [] OTHER          -> Capacity

\* the byte counts and the errors io.read completes with
ReceiveOutcomes ==
    { [errno |-> 0, count |-> n] : n \in {0, IN_HEADER_SIZE, IN_HEADER_SIZE + INIT_IN_SIZE} }
    \cup { [errno |-> e, count |-> 0] : e \in {ENOENT, EINTR, ENODEV, EIO} }

NoReceive == [kind |-> "none", errno |-> 0, count |-> 0]

(***************************************************************************)
(* State                                                                   *)
(***************************************************************************)
VARIABLES
    config,       \* the Config being built, then the one passed to start
    ncalls,       \* setter calls made so far
    call,         \* the last setter call: its name and its argument
    phase,        \* "config", "init", "running", "failed" or "panicked"
    chan,         \* read outcomes pending in the kernel channel, oldest first
    sent,         \* read outcomes the kernel has handed over so far
    delivered,    \* the frames the kernel has queued for the request loop,
                  \* oldest first
    buf,          \* init(): the decoded bytes of the bootstrap buffer (zeroed
                  \* when allocated and, here, once init() has returned)
    attempt,      \* the last iteration of init()'s loop: the frame read (none
                  \* when the read failed), the bytes decoded, the frame handed
                  \* to the writer, the result (and `prior`, the frame the
                  \* iteration before it read)
    reads,        \* frames read by init()
    writes,       \* frames the kernel received from try_init
    session,      \* Option<Session>: the Session inside the Arc
    owner,        \* the caller of start still holds its Arc<Session>
    outstanding,  \* yielded Requests not yet dropped (each holds an Arc clone)
    dropped,      \* Drop for Session has run
    pc,           \* next_request: "idle" or "reading" (suspended in read)
    discarded,    \* failed reads the current next_request call has retried
    lastResult,   \* what the last completed next_request call returned
    cancelled,    \* the last next_request call to end was cancelled
    yielded,      \* the Requests returned so far, oldest first
    bufs,         \* the length of the buffer each of them owns
    hello,        \* examples/hello: main is in its "loop", or has returned
                  \* ("done", "failed")
    replies,      \* examples/hello: the reply frames main has written
    beat,         \* examples/heartbeat: the heartbeat task: where it is, and
                  \* the unique of its notify_retrieve
    beats,        \* examples/heartbeat: rounds of the heartbeat task begun
    inner,        \* examples/heartbeat: Heartbeat::inner is "free" or locked
                  \* by "notify_store"
    retrieves,    \* examples/heartbeat: the keys of Heartbeat::retrieves
    retrieve_unique, \* examples/heartbeat: Heartbeat::retrieve_unique
    notified,     \* examples/heartbeat: uniques of the Retrieve notifications
                  \* the kernel has received and not yet answered
    handlers,     \* examples/heartbeat: spawned request handlers yet to run
    spawned,      \* examples/heartbeat: Getattr and Read requests read so far
    completed,    \* examples/heartbeat: uniques whose sender has sent
    lost,         \* examples/heartbeat: uniques whose NotifyReply handler
                  \* found no sender in retrieves
    recv_len,     \* Buffer: recv_buf.len(): its capacity, or a byte count
    old_len,      \* Buffer::receive: the local old_len
    len_before,   \* Buffer: recv_buf.len() when receive was last called
    rpc,          \* Buffer::receive: "idle" or "reading"
    io,           \* Buffer: the outcome the pending io.read will complete with
    retried,      \* Buffer::receive: failed reads the current call retried
    received,     \* Buffer: what the last receive call returned
    receives      \* Buffer: receive calls made so far

cfgVars == <<config, ncalls, call>>

kernelVars == <<chan, sent, delivered>>

initVars == <<buf, attempt, reads, writes>>

sessVars == <<session, owner, outstanding, dropped>>

readerVars == <<pc, discarded, lastResult, cancelled, yielded, bufs>>

coreVars == <<cfgVars, phase, kernelVars, initVars, sessVars, readerVars>>

helloVars == <<hello, replies>>

heartbeatVars == <<beat, beats, inner, retrieves, retrieve_unique, notified, handlers,
                   spawned, completed, lost>>

bufferVars == <<recv_len, old_len, len_before, rpc, io, retried, received, receives>>

appVars == <<helloVars, heartbeatVars, bufferVars>>

vars == <<coreVars, appVars>>

NoFrame == Frame(0, 0, 0, NoArg)

NoAttempt ==
    [n |-> 0, prior |-> NoFrame, read |-> NoFrame, decoded |-> buf_zeroed,
     reply |-> send_error(0, 0), write_ok |-> FALSE, result |-> "none"]

NoResult == [kind |-> "none", errno |-> 0, request |-> <<>>]

NoCall == [name |-> "none", arg |-> <<>>]

Call(name, arg) == [name |-> name, arg |-> <<arg>>]

Init ==
    /\ config = Config_default
    /\ ncalls = 0
    /\ call = NoCall
    /\ phase = "config"
    /\ chan = <<>>
    /\ sent = 0
    /\ delivered = <<>>
    /\ buf = buf_zeroed
    /\ attempt = NoAttempt
    /\ reads = 0
    /\ writes = 0
    /\ session = <<>>
    /\ owner = FALSE
    /\ outstanding = 0
    /\ dropped = FALSE
    /\ pc = "idle"
    /\ discarded = 0
    /\ lastResult = NoResult
    /\ cancelled = FALSE
    /\ yielded = <<>>
    /\ bufs = <<>>
    /\ hello = "loop"
    /\ replies = <<>>
    /\ beat = [pc |-> "update", unique |-> 0]
    /\ beats = 1
    /\ inner = "free"
    /\ retrieves = {}
    /\ retrieve_unique = 0
    /\ notified = {}
    /\ handlers = {}
    /\ spawned = 0
    /\ completed = {}
    /\ lost = {}
    /\ recv_len = Bytes(0)
    /\ old_len = Bytes(0)
    /\ len_before = Bytes(0)
    /\ rpc = "idle"
    /\ io = <<>>
    /\ retried = 0
    /\ received = NoReceive
    /\ receives = 0

(***************************************************************************)
(* Building the Config                                                     *)
(***************************************************************************)
\* *config.flags() |= flag  or  config.flags().remove(flag)
ConfigFlags ==
    /\ phase = "config" /\ ncalls < MaxConfigCalls
    /\ \E f \in ConfigFlagValues :
         /\ config' = [config EXCEPT !.flags =
                          IF f \in config.flags THEN config.flags \ {f}
                          ELSE config.flags \cup {f}]
         /\ call' = Call("flags", f)
    /\ ncalls' = ncalls + 1
    /\ UNCHANGED <<phase, kernelVars, initVars, sessVars, readerVars>>
    /\ UNCHANGED appVars

SetMaxWrite ==
    /\ phase = "config"
    /\ \E v \in MaxWriteValues :
         /\ config' = Config_max_write(config, v)
         /\ call' = Call("max_write", v)
    /\ ncalls' = ncalls + 1
    /\ UNCHANGED <<phase, kernelVars, initVars, sessVars, readerVars>>
    /\ UNCHANGED appVars

\* Config::max_write among the setter calls of a Config
ConfigMaxWrite == ncalls < MaxConfigCalls /\ SetMaxWrite

\* Config::max_write as the one setter call made on a fresh Config
FreshMaxWrite == ncalls = 0 /\ SetMaxWrite

SetMaxBackground ==
    /\ phase = "config"
    /\ \E v \in MaxBackgroundValues :
         /\ config' = Config_max_background(config, v)
         /\ call' = Call("max_background", v)
    /\ ncalls' = ncalls + 1
    /\ UNCHANGED <<phase, kernelVars, initVars, sessVars, readerVars>>
    /\ UNCHANGED appVars

SetCongestionThreshold ==
    /\ phase = "config"
    /\ \E v \in CongestionThresholdValues :
         /\ call' = Call("congestion_threshold", v)
         /\ IF congestion_threshold_accepts(config, v)
            THEN /\ config' = Config_congestion_threshold(config, v)
                 /\ phase' = phase
            ELSE /\ config' = config
                 /\ phase' = "panicked"
    /\ ncalls' = ncalls + 1
    /\ UNCHANGED <<kernelVars, initVars, sessVars, readerVars>>
    /\ UNCHANGED appVars

\* Config::max_background, one of the few calls the other runs make
ConfigMaxBackground == ncalls < MaxConfigCalls /\ SetMaxBackground

\* Config::congestion_threshold, likewise
ConfigCongestionThreshold == ncalls < MaxConfigCalls /\ SetCongestionThreshold

\* Config::max_background in a longer chain of setter calls
ChainMaxBackground == ncalls < MaxSetterCalls /\ SetMaxBackground

\* Config::congestion_threshold in a longer chain of setter calls
ChainCongestionThreshold == ncalls < MaxSetterCalls /\ SetCongestionThreshold

(***************************************************************************)
(* The kernel                                                              *)
(***************************************************************************)
\* The kernel answers a read of the handshake; it holds its other requests
\* back until the INIT exchange is over.
KernelSendInit ==
    /\ phase = "init" /\ chan = <<>> /\ sent < MaxSent
    /\ \E o \in { OkRead(f) : f \in HandshakeFrames(sent + 1) }
                \cup { ErrRead(e) : e \in ReadErrnos } :
         chan' = Append(chan, o)
    /\ sent' = sent + 1
    /\ UNCHANGED <<cfgVars, phase, delivered, initVars, sessVars, readerVars>>
    /\ UNCHANGED appVars

KernelSendRequest ==
    /\ phase = "running" /\ Len(chan) < MaxChan /\ sent < MaxSent
    /\ \E o \in { OkRead(f) : f \in RequestFrames(sent + 1) }
                \cup { ErrRead(e) : e \in ReadErrnos } :
         /\ chan' = Append(chan, o)
         /\ delivered' = IF o.errno = 0 THEN Append(delivered, o.frame)
                          ELSE delivered
    /\ sent' = sent + 1
    /\ UNCHANGED <<cfgVars, phase, initVars, sessVars, readerVars>>
    /\ UNCHANGED appVars

(***************************************************************************)
(* Session::start / init                                                   *)
(***************************************************************************)
\* Session::start(conn, config) is called: init() allocates its buffer and
\* suspends in the first read.
Start ==
    /\ phase = "config"
    /\ phase' = "init"
    /\ UNCHANGED <<cfgVars, kernelVars, initVars, sessVars, readerVars>>
    /\ UNCHANGED appVars

\* conn.read(&mut buf[..]).await? fails: start returns the error.
InitReadError ==
    /\ phase = "init" /\ chan /= <<>> /\ Head(chan).errno /= 0
    /\ chan' = Tail(chan)
    /\ phase' = "failed"
    /\ buf' = buf_zeroed
    /\ attempt' = [NoAttempt EXCEPT !.n = attempt.n + 1, !.prior = attempt.read,
                                    !.result = "error"]
    /\ UNCHANGED <<cfgVars, sent, delivered, reads, writes, sessVars, readerVars>>
    /\ UNCHANGED appVars

\* One iteration of init()'s loop: the read, then try_init on the buffer.
InitAttempt ==
    /\ phase = "init" /\ chan /= <<>> /\ Head(chan).errno = 0
    /\ \E write_ok \in BOOLEAN :
         LET frame == Head(chan).frame
             bytes == read_into(buf, frame)
             r     == try_init(config, bytes, write_ok)
         IN  /\ buf' = IF r.result = "retry" THEN bytes ELSE buf_zeroed
             /\ attempt' = [n |-> attempt.n + 1, prior |-> attempt.read,
                            read |-> frame, decoded |-> bytes,
                            reply |-> r.reply, write_ok |-> write_ok,
                            result |-> r.result]
             /\ writes' = IF write_ok THEN writes + 1 ELSE writes
             /\ session' = r.session
             /\ owner' = (r.result = "session")
             /\ phase' = CASE r.result = "session" -> "running"
                           [] r.result = "retry"   -> "init"
                           [] OTHER                -> "failed"
    /\ chan' = Tail(chan)
    /\ reads' = reads + 1
    /\ UNCHANGED <<cfgVars, sent, delivered, outstanding, dropped, readerVars>>
    /\ UNCHANGED appVars

(***************************************************************************)
(* Session::next_request                                                   *)
(***************************************************************************)
\* The call: allocate vec![0u8; self.bufsize] and suspend in conn.read.
NextRequestCall ==
    /\ phase = "running" /\ owner /\ pc = "idle"
    /\ pc' = "reading"
    /\ discarded' = 0
    /\ UNCHANGED <<cfgVars, phase, kernelVars, initVars, sessVars, lastResult, cancelled,
                   yielded, bufs>>
    /\ UNCHANGED appVars

\* The read returns Ok(len): buf.set_len(len), and the Request (the buffer
\* and a clone of the Arc) is returned.
NextRequestOk ==
    /\ pc = "reading" /\ chan /= <<>> /\ Head(chan).errno = 0
    /\ LET request == Head(chan).frame
       IN  IF next_request_on_ok(request.len) = "yield"
           THEN /\ lastResult' = [kind |-> "request", errno |-> 0,
                                  request |-> <<request>>]
                /\ yielded' = Append(yielded, request)
                /\ bufs' = Append(bufs, request_buf_len(session[1].bufsize,
                                                        request.len))
                /\ outstanding' = outstanding + 1
           ELSE /\ lastResult' = [kind |-> "eof", errno |-> 0, request |-> <<>>]
                /\ UNCHANGED <<yielded, bufs, outstanding>>
    /\ chan' = Tail(chan)
    /\ pc' = "idle"
    /\ cancelled' = FALSE
    /\ UNCHANGED <<cfgVars, phase, sent, delivered, initVars, session, owner, dropped,
                   discarded>>
    /\ UNCHANGED appVars

\* The read returns Err(err): the match on err.raw_os_error().
NextRequestErr ==
    /\ pc = "reading" /\ chan /= <<>> /\ Head(chan).errno /= 0
    /\ LET errno == Head(chan).errno
           arm   == next_request_on_error(errno)
       IN  CASE arm = "eof" ->
                  /\ session' = <<on_enodev(session[1])>>
                  /\ lastResult' = [kind |-> "eof", errno |-> 0, request |-> <<>>]
                  /\ pc' = "idle"
                  /\ cancelled' = FALSE
                  /\ discarded' = discarded
             [] arm = "retry" ->
                  /\ discarded' = discarded + 1
                  /\ UNCHANGED <<session, lastResult, pc, cancelled>>
             [] OTHER ->
                  /\ lastResult' = [kind |-> "error", errno |-> errno, request |-> <<>>]
                  /\ pc' = "idle"
                  /\ cancelled' = FALSE
                  /\ UNCHANGED <<session, discarded>>
    /\ chan' = Tail(chan)
    /\ UNCHANGED <<cfgVars, phase, sent, delivered, initVars, owner, outstanding,
                   dropped, yielded, bufs>>
    /\ UNCHANGED appVars

\* The future of next_request is dropped while suspended in the read.
NextRequestCancel ==
    /\ pc = "reading"
    /\ pc' = "idle"
    /\ session' = <<on_cancel(session[1])>>
    /\ cancelled' = TRUE
    /\ UNCHANGED <<cfgVars, phase, kernelVars, initVars, owner, outstanding, dropped,
                   discarded, lastResult, yielded, bufs>>
    /\ UNCHANGED appVars

(***************************************************************************)
(* Session::exit and Drop for Session                                      *)
(***************************************************************************)
\* The Session once an Arc is released with `left` Arcs remaining:
\* Drop::drop runs when none is left.
release(s, left) == IF left = 0 THEN exit(s) ELSE s

\* Arcs on the Session: the caller's and one per live Request
arcs == (IF owner THEN 1 ELSE 0) + outstanding

\* session.exit() on a live Session (pub(crate))
Exit ==
    /\ session /= <<>> /\ ~dropped
    /\ session' = <<exit(session[1])>>
    /\ UNCHANGED <<cfgVars, phase, kernelVars, initVars, owner, outstanding, dropped,
                   readerVars>>
    /\ UNCHANGED appVars

\* The caller releases its Arc<Session>; next_request borrows it while
\* running, so no call is in progress.
DropOwner ==
    /\ owner /\ pc = "idle"
    /\ owner' = FALSE
    /\ session' = <<release(session[1], arcs - 1)>>
    /\ dropped' = (arcs - 1 = 0)
    /\ UNCHANGED <<cfgVars, phase, kernelVars, initVars, outstanding, readerVars>>
    /\ UNCHANGED appVars

\* A yielded Request is dropped, and its Arc with it.
DropRequest ==
    /\ outstanding > 0
    /\ outstanding' = outstanding - 1
    /\ session' = <<release(session[1], arcs - 1)>>
    /\ dropped' = (arcs - 1 = 0)
    /\ UNCHANGED <<cfgVars, phase, kernelVars, initVars, owner, readerVars>>
    /\ UNCHANGED appVars

\* Session::start on Config::default(), the handshake, the request loop and
\* the release of the Session.
Next ==
    \/ Start
    \/ KernelSendInit
    \/ KernelSendRequest
    \/ InitReadError
    \/ InitAttempt
    \/ NextRequestCall
    \/ NextRequestOk
    \/ NextRequestErr
    \/ NextRequestCancel
    \/ Exit
    \/ DropOwner
    \/ DropRequest

Spec == Init /\ [][Next]_vars

\* The Config setters, Session::start and the handshake.
NextInit ==
    \/ ConfigFlags
    \/ ConfigMaxWrite
    \/ ConfigMaxBackground
    \/ ConfigCongestionThreshold
    \/ Start
    \/ KernelSendInit
    \/ InitReadError
    \/ InitAttempt

SpecInit == Init /\ [][NextInit]_vars

\* Chains of Config::max_background and Config::congestion_threshold calls,
\* Session::start and the handshake.
NextConfig ==
    \/ ChainMaxBackground
    \/ ChainCongestionThreshold
    \/ Start
    \/ KernelSendInit
    \/ InitReadError
    \/ InitAttempt

SpecConfig == Init /\ [][NextConfig]_vars

\* Config::max_write on a fresh Config, then everything Spec does.
NextWrite ==
    \/ FreshMaxWrite
    \/ Next

SpecWrite == Init /\ [][NextWrite]_vars

(***************************************************************************)
(* examples/hello                                                          *)
(***************************************************************************)
HELLO_FILENAME == "hello.txt"

\* the payload of a request: the node it is about and, for LOOKUP, the name
OpArg(nodeid, name) == [nodeid |-> nodeid, name |-> name]

\* the frames the kernel delivers to the hello filesystem
HelloFrames(unique) ==
    { Frame(FUSE_LOOKUP, unique, IN_HEADER_SIZE + INIT_IN_SIZE, OpArg(ROOT_INO, n)) :
          n \in {HELLO_FILENAME, "other"} }
    \cup { Frame(o, unique, IN_HEADER_SIZE + INIT_IN_SIZE, OpArg(ROOT_INO, "")) :
               o \in {FUSE_GETATTR, FUSE_READ, FUSE_READDIR, FUSE_OPEN, OPCODE_UNKNOWN} }
    \cup { Frame(FUSE_READDIR, unique, IN_HEADER_SIZE + INIT_IN_SIZE, OpArg(HELLO_INO, "")),
           Frame(FUSE_LOOKUP, unique, IN_HEADER_SIZE, OpArg(ROOT_INO, "")) }

\* the read errors the hello run meets
HelloReadErrnos == { ENODEV, EIO }

\* Request::operation: the header must be there, and the argument of these
\* opcodes after it; an opcode that is not known decodes as "Unknown".
operation(req) ==
    LET op(kind) == [kind |-> kind, ino |-> req.arg.nodeid, name |-> req.arg.name]
    IN  IF req.len < IN_HEADER_SIZE THEN [kind |-> "error", ino |-> 0, name |-> ""]
        ELSE IF req.opcode \notin {FUSE_LOOKUP, FUSE_GETATTR, FUSE_READ, FUSE_READDIR,
                                   FUSE_OPEN}
        THEN op("Unknown")
        ELSE IF req.len <= IN_HEADER_SIZE THEN [kind |-> "error", ino |-> 0, name |-> ""]
        ELSE CASE req.opcode = FUSE_LOOKUP  -> op("Lookup")
               [] req.opcode = FUSE_GETATTR -> op("Getattr")
               [] req.opcode = FUSE_READ    -> op("Read")
               [] req.opcode = FUSE_READDIR -> op("Readdir")
               [] OTHER                     -> op("Open")

\* Reply::new(unique, error, arg), as write_bytes puts it on the wire
Reply_new(unique, code, body) == [unique |-> unique, error |-> 0 - code, body |-> body]

\* ReplyWriter::ok
ReplyWriter_ok(req, arg) == Reply_new(req.unique, 0, <<arg>>)

\* ReplyWriter::error
ReplyWriter_error(req, code) == Reply_new(req.unique, code, <<>>)

\* Hello::lookup
Hello_lookup(op, req) ==
    IF op.ino = ROOT_INO /\ op.name = HELLO_FILENAME
    THEN ReplyWriter_ok(req, "EntryOut")
    ELSE ReplyWriter_error(req, ENOENT)

\* Hello::getattr
Hello_getattr(op, req) ==
    IF op.ino \in {ROOT_INO, HELLO_INO}
    THEN ReplyWriter_ok(req, "AttrOut")
    ELSE ReplyWriter_error(req, ENOENT)

\* Hello::read
Hello_read(op, req) ==
    IF op.ino = HELLO_INO THEN ReplyWriter_ok(req, "data")
    ELSE IF op.ino = ROOT_INO THEN ReplyWriter_error(req, EISDIR)
    ELSE ReplyWriter_error(req, ENOENT)

\* Hello::readdir
Hello_readdir(op, req) ==
    IF op.ino /= ROOT_INO THEN ReplyWriter_error(req, ENOTDIR)
    ELSE ReplyWriter_ok(req, "ReaddirOut")

\* hello_match with a default arm that answers success
hello_match_default_ok(op, req) ==
    CASE op.kind = "Lookup"  -> Hello_lookup(op, req)
      [] op.kind = "Getattr" -> Hello_getattr(op, req)
      [] op.kind = "Read"    -> Hello_read(op, req)
      [] op.kind = "Readdir" -> Hello_readdir(op, req)
      [] OTHER               -> ReplyWriter_ok(req, "")

\* main: the match on req.operation()?, which writes one reply in each arm
hello_match(op, req) ==
    CASE op.kind = "Lookup"  -> Hello_lookup(op, req)
      [] op.kind = "Getattr" -> Hello_getattr(op, req)
      [] op.kind = "Read"    -> Hello_read(op, req)
      [] op.kind = "Readdir" -> Hello_readdir(op, req)
      [] OTHER               -> ReplyWriter_error(req, ENOSYS)

\* The kernel queues a request, or a read error, for the hello filesystem.
KernelSendHello ==
    /\ phase = "running" /\ Len(chan) < MaxChan /\ sent < MaxSent
    /\ \E o \in { OkRead(f) : f \in HelloFrames(sent + 1) }
                \cup { ErrRead(e) : e \in HelloReadErrnos } :
         /\ chan' = Append(chan, o)
         /\ delivered' = IF o.errno = 0 THEN Append(delivered, o.frame)
                          ELSE delivered
    /\ sent' = sent + 1
    /\ UNCHANGED <<cfgVars, phase, initVars, sessVars, readerVars, appVars>>

\* main: the head of the while loop calls session.next_request(&conn), once
\* the body has dealt with the request before.
HelloNextRequest ==
    /\ hello = "loop" /\ Len(replies) = Len(yielded)
    /\ NextRequestCall

\* main: the body of the loop on the Request just yielded: decode it, answer
\* it, drop it; an error of the decoding or of the write ends main.
HelloHandle ==
    /\ hello = "loop" /\ pc = "idle" /\ lastResult.kind = "request"
    /\ Len(replies) < Len(yielded)
    /\ LET req == lastResult.request[1]
           op  == operation(req)
       IN  IF op.kind = "error"
           THEN /\ hello' = "failed"
                /\ replies' = replies
           ELSE \E write_ok \in BOOLEAN :
                   IF write_ok
                   THEN /\ replies' = Append(replies, hello_match(op, req))
                        /\ hello' = hello
                   ELSE /\ hello' = "failed"
                        /\ replies' = replies
    /\ outstanding' = outstanding - 1
    /\ session' = <<release(session[1], arcs - 1)>>
    /\ dropped' = (arcs - 1 = 0)
    /\ UNCHANGED <<cfgVars, phase, kernelVars, initVars, owner, readerVars,
                   heartbeatVars, bufferVars>>

\* main: next_request returned Ok(None) or Err; main returns and its
\* Arc<Session> goes.
HelloReturn ==
    /\ hello = "loop" /\ pc = "idle" /\ owner
    /\ lastResult.kind \in {"eof", "error"}
    /\ hello' = IF lastResult.kind = "eof" THEN "done" ELSE "failed"
    /\ owner' = FALSE
    /\ session' = <<release(session[1], arcs - 1)>>
    /\ dropped' = (arcs - 1 = 0)
    /\ UNCHANGED <<cfgVars, phase, kernelVars, initVars, outstanding, readerVars, replies,
                   heartbeatVars, bufferVars>>

\* examples/hello: Session::start on Config::default(), then main's loop.
NextHello ==
    \/ Start
    \/ KernelSendInit
    \/ InitReadError
    \/ InitAttempt
    \/ KernelSendHello
    \/ HelloNextRequest
    \/ NextRequestOk
    \/ NextRequestErr
    \/ HelloHandle
    \/ HelloReturn

SpecHello == Init /\ [][NextHello]_vars

(***************************************************************************)
(* examples/heartbeat                                                     *)
(***************************************************************************)
\* the requests the heartbeat filesystem answers under the content lock
HeartbeatOps == { "Getattr", "Read" }

\* Heartbeat::update_content: lock inner, replace the content, unlock.
BeatUpdate ==
    /\ beat.pc = "update" /\ inner = "free"
    /\ beat' = [beat EXCEPT !.pc = "store"]
    /\ UNCHANGED <<beats, inner, retrieves, retrieve_unique, notified, handlers, spawned,
                   completed, lost>>
    /\ UNCHANGED <<coreVars, helloVars, bufferVars>>

\* notify_store: lock inner (held until the function returns) and write the
\* Store notification; a failed write returns the error.
BeatStore ==
    /\ beat.pc = "store" /\ inner = "free"
    /\ \E write_ok \in BOOLEAN :
         IF write_ok
         THEN /\ inner' = "notify_store"
              /\ beat' = [beat EXCEPT !.pc = "retrieve"]
         ELSE /\ inner' = "free"
              /\ beat' = [beat EXCEPT !.pc = "failed"]
    /\ UNCHANGED <<beats, retrieves, retrieve_unique, notified, handlers, spawned,
                   completed, lost>>
    /\ UNCHANGED <<coreVars, helloVars, bufferVars>>

\* notify_store: unique = retrieve_unique.fetch_add(1) and the write of
\* Retrieve::new(unique, ..): the kernel has the notification.
BeatRetrieve ==
    /\ beat.pc = "retrieve"
    /\ retrieve_unique' = retrieve_unique + 1
    /\ \E write_ok \in BOOLEAN :
         IF write_ok
         THEN /\ beat' = [pc |-> "insert", unique |-> retrieve_unique]
              /\ notified' = notified \cup {retrieve_unique}
              /\ inner' = inner
         ELSE /\ beat' = [pc |-> "failed", unique |-> retrieve_unique]
              /\ notified' = notified
              /\ inner' = "free"
    /\ UNCHANGED <<beats, retrieves, handlers, spawned, completed, lost>>
    /\ UNCHANGED <<coreVars, helloVars, bufferVars>>

\* notify_store: self.retrieves.lock().await.insert(unique, tx)
BeatInsert ==
    /\ beat.pc = "insert"
    /\ retrieves' = retrieves \cup {beat.unique}
    /\ beat' = [beat EXCEPT !.pc = "await"]
    /\ UNCHANGED <<beats, inner, retrieve_unique, notified, handlers, spawned, completed,
                   lost>>
    /\ UNCHANGED <<coreVars, helloVars, bufferVars>>

\* notify_store: rx.await completes once the sender has sent; the function
\* returns and the lock on inner goes.
BeatAwait ==
    /\ beat.pc = "await" /\ beat.unique \in completed
    /\ beat' = [beat EXCEPT !.pc = "sleep"]
    /\ inner' = "free"
    /\ UNCHANGED <<beats, retrieves, retrieve_unique, notified, handlers, spawned,
                   completed, lost>>
    /\ UNCHANGED <<coreVars, helloVars, bufferVars>>

\* the heartbeat task: task::sleep, then the next round of the loop
BeatSleep ==
    /\ beat.pc = "sleep" /\ beats < MaxBeats
    /\ beat' = [beat EXCEPT !.pc = "update"]
    /\ beats' = beats + 1
    /\ UNCHANGED <<inner, retrieves, retrieve_unique, notified, handlers, spawned,
                   completed, lost>>
    /\ UNCHANGED <<coreVars, helloVars, bufferVars>>

\* main: next_request yields the kernel's answer to a Retrieve, and a
\* handler task is spawned for it.
SpawnNotifyReply ==
    /\ \E u \in notified :
         /\ notified' = notified \ {u}
         /\ handlers' = handlers \cup {[op |-> "NotifyReply", unique |-> u]}
    /\ UNCHANGED <<beat, beats, inner, retrieves, retrieve_unique, spawned, completed,
                   lost>>
    /\ UNCHANGED <<coreVars, helloVars, bufferVars>>

\* main: next_request yields a Getattr or a Read of the root, and a handler
\* task is spawned for it.
SpawnRequest ==
    /\ spawned < MaxHeartbeatRequests
    /\ \E o \in HeartbeatOps :
         handlers' = handlers \cup {[op |-> o, unique |-> spawned + 1]}
    /\ spawned' = spawned + 1
    /\ UNCHANGED <<beat, beats, inner, retrieves, retrieve_unique, notified, completed,
                   lost>>
    /\ UNCHANGED <<coreVars, helloVars, bufferVars>>

\* The handler of Operation::NotifyReply: retrieves.lock().await.remove(unique)
\* and, if a sender was there, tx.send(buf).
HandleNotifyReply ==
    /\ \E h \in handlers :
         /\ h.op = "NotifyReply"
         /\ handlers' = handlers \ {h}
         /\ IF h.unique \in retrieves
            THEN /\ retrieves' = retrieves \ {h.unique}
                 /\ completed' = completed \cup {h.unique}
                 /\ lost' = lost
            ELSE /\ lost' = lost \cup {h.unique}
                 /\ UNCHANGED <<retrieves, completed>>
    /\ UNCHANGED <<beat, beats, inner, retrieve_unique, notified, spawned>>
    /\ UNCHANGED <<coreVars, helloVars, bufferVars>>

\* The handlers of Getattr and Read of the root: inner.lock().await, the
\* reply, and the lock goes.
HandleRequest ==
    /\ inner = "free"
    /\ \E h \in handlers :
         /\ h.op \in HeartbeatOps
         /\ handlers' = handlers \ {h}
    /\ UNCHANGED <<beat, beats, inner, retrieves, retrieve_unique, notified, spawned,
                   completed, lost>>
    /\ UNCHANGED <<coreVars, helloVars, bufferVars>>

\* examples/heartbeat with --notify-kind store: the heartbeat task, main's
\* loop and the handler tasks it spawns.
NextHeartbeat ==
    \/ BeatUpdate
    \/ BeatStore
    \/ BeatRetrieve
    \/ BeatInsert
    \/ BeatAwait
    \/ BeatSleep
    \/ SpawnNotifyReply
    \/ SpawnRequest
    \/ HandleNotifyReply
    \/ HandleRequest

SpecHeartbeat == Init /\ [][NextHeartbeat]_vars

(***************************************************************************)
(* Buffer::receive                                                         *)
(***************************************************************************)
\* The call: old_len = recv_buf.len(); set_len(capacity()); io.read is
\* awaited.
ReceiveCall ==
    /\ rpc = "idle" /\ receives < MaxReceives
    /\ old_len' = recv_len
    /\ len_before' = recv_len
    /\ recv_len' = Capacity
    /\ rpc' = "reading"
    /\ retried' = 0
    /\ receives' = receives + 1
    /\ UNCHANGED <<io, received>>
    /\ UNCHANGED <<coreVars, helloVars, heartbeatVars>>

\* The io object has an outcome for the pending read.
IoReady ==
    /\ rpc = "reading" /\ io = <<>>
    /\ \E o \in ReceiveOutcomes :
         /\ receive_arm(o.errno) = "retry" => retried < MaxRetries
         /\ io' = <<o>>
    /\ UNCHANGED <<recv_len, old_len, len_before, rpc, retried, received, receives>>
    /\ UNCHANGED <<coreVars, helloVars, heartbeatVars>>

\* io.read completes: the match of Buffer::receive on its outcome.
ReceiveRead ==
    /\ rpc = "reading" /\ io /= <<>>
    /\ LET o   == io[1]
           arm == receive_arm(o.errno)
       IN  /\ recv_len' = receive_set_len(arm, old_len, o.count)
           /\ IF arm = "retry"
              THEN /\ retried' = retried + 1
                   /\ UNCHANGED <<rpc, received>>
              ELSE /\ rpc' = "idle"
                   /\ retried' = retried
                   /\ received' = [kind  |-> CASE arm = "ok"     -> "Ok(false)"
                                              [] arm = "closed" -> "Ok(true)"
                                              [] OTHER          -> "Err",
                                   errno |-> o.errno, count |-> o.count]
    /\ io' = <<>>
    /\ UNCHANGED <<old_len, len_before, receives>>
    /\ UNCHANGED <<coreVars, helloVars, heartbeatVars>>

\* Calls of Buffer::receive on one Buffer, one after the other.
NextBuffer ==
    \/ ReceiveCall
    \/ IoReady
    \/ ReceiveRead

SpecBuffer == Init /\ [][NextBuffer]_vars

(***************************************************************************)
(* Shorthands of the properties                                            *)
(***************************************************************************)
\* The last handshake iteration read a whole INIT frame (header and argument).
ReadWholeInit ==
    /\ attempt.n > 0
    /\ attempt.read.opcode = FUSE_INIT
    /\ attempt.read.len >= IN_HEADER_SIZE + INIT_IN_SIZE

\* The next_request call in progress takes the oldest pending read outcome.
ReaderTakes(errno) ==
    /\ pc = "reading" /\ chan /= <<>> /\ Head(chan).errno = errno
    /\ chan' = Tail(chan)

(***************************************************************************)
(* C1: no request is yielded before an INIT handshake has succeeded.       *)
(* Whenever next_request has been called or has returned anything, the     *)
(* last handshake iteration decoded an INIT with major = 7 and             *)
(* minor >= 23, its success reply was written and it built the Session;    *)
(* and no yielded request is a frame the handshake read.                   *)
(***************************************************************************)
C1_NoRequestBeforeInit ==
    (yielded /= <<>> \/ pc = "reading" \/ lastResult.kind /= "none") =>
        /\ phase = "running" /\ session /= <<>>
        /\ attempt.result = "session" /\ attempt.write_ok
        /\ attempt.reply.error = 0 /\ attempt.reply.body /= <<>>
        /\ attempt.decoded.opcode = FUSE_INIT
        /\ attempt.decoded.arg.major = 7
        /\ attempt.decoded.arg.minor >= MINIMUM_SUPPORTED_MINOR_VERSION
        /\ \A i \in 1..Len(yielded) : yielded[i].unique > attempt.read.unique

\* a request is yielded after a handshake that first turned a frame down
C1_Witness ==
    /\ yielded /= <<>>
    /\ attempt.n >= 2
    /\ attempt.result = "session"

(***************************************************************************)
(* C2: when the read inside next_request fails with ENODEV the call        *)
(* returns Ok(None) and, after it, Session::exited() is true.              *)
(***************************************************************************)
C2_EnodevSetsExit ==
    lastResult.kind = "eof" => exited(session[1])

(***************************************************************************)
(* C3: a read failing with EINTR inside next_request is retried; EINTR is  *)
(* never returned to the caller as an error.                               *)
(***************************************************************************)
C3_EintrNeverReturned ==
    ~(lastResult.kind = "error" /\ lastResult.errno = EINTR)

(***************************************************************************)
(* C4: a read failing with ENOENT inside next_request is discarded and     *)
(* the same call reads again: the call stays in progress, the result of    *)
(* the last call, the Session (its exit flag) and the yielded requests     *)
(* are untouched; the next successful read of that call is yielded as it   *)
(* was read; ENOENT is never returned as an error.                         *)
(***************************************************************************)
C4_EnoentRetried ==
    /\ [](~(lastResult.kind = "error" /\ lastResult.errno = ENOENT))
    /\ [][ReaderTakes(ENOENT) =>
             /\ pc' = "reading"
             /\ discarded' = discarded + 1
             /\ UNCHANGED <<lastResult, yielded, sessVars>>]_vars
    /\ [][ReaderTakes(0) =>
             /\ pc' = "idle"
             /\ lastResult' = [kind |-> "request", errno |-> 0,
                               request |-> <<Head(chan).frame>>]
             /\ yielded' = Append(yielded, Head(chan).frame)]_vars

\* a call that discarded two ENOENTs has returned the frame read after them
C4_Witness ==
    /\ pc = "idle"
    /\ discarded >= 2
    /\ lastResult.kind = "request"
    /\ lastResult.request[1].unique = attempt.read.unique + discarded + 1

C6_Negotiation ==
    (ReadWholeInit /\ attempt.read.arg.major = 7
        /\ attempt.read.arg.minor >= MINIMUM_SUPPORTED_MINOR_VERSION) =>
        LET k == attempt.read.arg
        IN  /\ attempt.reply.unique = attempt.read.unique
            /\ attempt.reply.error = 0
            /\ attempt.reply.body /= <<>>
            /\ attempt.reply.body[1].major = 7
            /\ attempt.reply.body[1].minor =
                  (IF k.minor < FUSE_KERNEL_MINOR_VERSION THEN k.minor
                   ELSE FUSE_KERNEL_MINOR_VERSION)
            /\ (config.flags \cap k.flags) \subseteq attempt.reply.body[1].flags
            /\ FUSE_BIG_WRITES \in attempt.reply.body[1].flags
            /\ attempt.write_ok =>
                  (attempt.result = "session" /\ phase = "running" /\ session /= <<>>)

\* a handshake succeeded on a kernel minor above ours, with a bit
\* (POSIX_LOCKS) that the kernel and a non-default config both set
C6_Witness ==
    /\ ReadWholeInit /\ attempt.result = "session"
    /\ attempt.read.arg.minor > FUSE_KERNEL_MINOR_VERSION
    /\ FUSE_POSIX_LOCKS \in config.flags \cap attempt.read.arg.flags

(***************************************************************************)
(* C7: for every INIT with major > 7 try_init answers with a success       *)
(* reply carrying its own fuse_init_out (major 7, minor 31), builds no     *)
(* Session and init() stays in its read loop; an INIT with major 7 and     *)
(* minor >= 23 that follows completes the handshake with the reply and     *)
(* the Session of a handshake that reads that INIT first.                  *)
(***************************************************************************)
C7_FutureVersion ==
    /\ (ReadWholeInit /\ attempt.read.arg.major > 7) =>
          /\ attempt.reply = [unique |-> attempt.read.unique, error |-> 0,
                              body |-> <<[fuse_init_out_default EXCEPT
                                            !.major = 7,
                                            !.minor = FUSE_KERNEL_MINOR_VERSION]>>]
          /\ attempt.result /= "session" /\ session = <<>>
          /\ attempt.write_ok => (attempt.result = "retry" /\ phase = "init")
    /\ (ReadWholeInit /\ attempt.read.arg.major = 7
           /\ attempt.read.arg.minor >= MINIMUM_SUPPORTED_MINOR_VERSION
           /\ attempt.prior.opcode = FUSE_INIT /\ attempt.prior.arg.major > 7
           /\ attempt.write_ok) =>
          LET first == try_init(config, read_into(buf_zeroed, attempt.read), TRUE)
          IN  /\ attempt.result = "session" /\ phase = "running"
              /\ attempt.reply = first.reply
              /\ session /= <<>>
              /\ session[1].conn = first.session[1].conn
              /\ session[1].bufsize = first.session[1].bufsize

\* the handshake completed on the INIT that followed a future-version INIT
C7_Witness ==
    /\ ReadWholeInit /\ attempt.result = "session"
    /\ attempt.prior.opcode = FUSE_INIT /\ attempt.prior.arg.major > 7
    /\ attempt.n >= 2

(***************************************************************************)
(* C8: for every INIT with major < 7, or major = 7 and minor < 23,         *)
(* try_init writes an error frame carrying EPROTO and the request's        *)
(* unique, builds no Session, and init() returns to its read loop.         *)
(***************************************************************************)
C8_TooOld ==
    (ReadWholeInit /\ (attempt.read.arg.major < 7
                         \/ (attempt.read.arg.major = 7
                             /\ attempt.read.arg.minor < MINIMUM_SUPPORTED_MINOR_VERSION))) =>
        /\ attempt.reply = [unique |-> attempt.read.unique, error |-> 0 - EPROTO,
                            body |-> <<>>]
        /\ attempt.result /= "session" /\ session = <<>>
        /\ attempt.write_ok => (attempt.result = "retry" /\ phase = "init")

\* an INIT 7.22 was turned down and init() is back in its read loop
C8_Witness ==
    /\ ReadWholeInit
    /\ attempt.read.arg.major = 7 /\ attempt.read.arg.minor = 22
    /\ attempt.write_ok /\ phase = "init"

(***************************************************************************)
(* C9: a frame whose opcode is not INIT, read before a successful INIT, is *)
(* answered with an error frame carrying EIO and that frame's unique,      *)
(* builds no Session and is not yielded; init() goes on to the next read.  *)
(***************************************************************************)
C9_OtherOpcode ==
    (attempt.n > 0 /\ attempt.read.len >= IN_HEADER_SIZE
        /\ attempt.read.opcode /= FUSE_INIT) =>
        /\ attempt.reply = [unique |-> attempt.read.unique, error |-> 0 - EIO,
                            body |-> <<>>]
        /\ attempt.result /= "session" /\ session = <<>>
        /\ yielded = <<>> /\ lastResult.kind = "none"
        /\ attempt.write_ok => (attempt.result = "retry" /\ phase = "init")

\* a LOOKUP was answered with EIO and init() is back in its read loop
C9_Witness ==
    /\ attempt.n > 0 /\ attempt.read.opcode = FUSE_LOOKUP
    /\ attempt.reply.error = 0 - EIO
    /\ attempt.write_ok /\ phase = "init"

(***************************************************************************)
(* C10: the exit flag is monotone: no step of the Session (next_request in *)
(* any outcome, exit, the release of an Arc, Drop) clears it once set.     *)
(***************************************************************************)
C10_ExitMonotone ==
    [][(session /= <<>> /\ exited(session[1])) =>
          (session' /= <<>> /\ exited(session'[1]))]_vars

\* the flag was set by exit() on a live Session, which then went on
\* returning from next_request
C10_Witness ==
    /\ session /= <<>> /\ exited(session[1]) /\ ~dropped
    /\ lastResult.kind = "request" /\ pc = "reading" /\ discarded > 0

\* The frames among the read outcomes still pending in the channel
PendingFrames ==
    LET ok == SelectSeq(chan, LAMBDA o : o.errno = 0)
    IN  [i \in 1..Len(ok) |-> ok[i].frame]

C12_FatalReadError ==
    [][\A e \in ReadErrnos \ {ENODEV, ENOENT, EINTR} :
          ReaderTakes(e) =>
              /\ lastResult' = [kind |-> "error", errno |-> e, request |-> <<>>]
              /\ pc' = "idle"
              /\ UNCHANGED <<yielded, session, owner, outstanding, dropped, phase>>]_vars

\* next_request returned EIO on a Session that is not exited and had
\* yielded a request before
C12_Witness ==
    /\ lastResult.kind = "error" /\ lastResult.errno = EIO
    /\ session /= <<>> /\ ~exited(session[1])
    /\ yielded /= <<>> /\ pc = "idle"

(***************************************************************************)
(* C13: after a successful handshake the flags the Session stores agree    *)
(* with the kernel's INIT flags on every bit the core does not recognize.  *)
(* Every kernel bit outside CapabilityFlags::all() is stored; outside      *)
(* CapabilityFlags::all() and BIG_WRITES (which the reply always sets) the *)
(* stored flags and the kernel's flags are equal; so no_open_support(),    *)
(* no_opendir_support() and the presence of max_pages() report what the    *)
(* kernel set.                                                             *)
(***************************************************************************)
C13_UnrecognizedPreserved ==
    (ReadWholeInit /\ attempt.result = "session") =>
        LET kernel == attempt.read.arg.flags
            conn   == session[1].conn
            core   == CapabilityFlags_all \cup {FUSE_BIG_WRITES}
        IN  /\ (kernel \ CapabilityFlags_all) \subseteq conn.flags
            /\ conn.flags \ core = kernel \ core
            /\ no_open_support(conn) <=> FUSE_NO_OPEN_SUPPORT \in kernel
            /\ no_opendir_support(conn) <=> FUSE_NO_OPENDIR_SUPPORT \in kernel
            /\ (max_pages(conn) /= <<>>) <=> FUSE_MAX_PAGES \in kernel

\* a handshake succeeded on an INIT with NO_OPENDIR_SUPPORT and without
\* BIG_WRITES, and the connection reports no_opendir_support
C13_Witness ==
    /\ ReadWholeInit /\ attempt.result = "session"
    /\ FUSE_BIG_WRITES \notin attempt.read.arg.flags
    /\ no_opendir_support(session[1].conn) /\ ~no_open_support(session[1].conn)

(***************************************************************************)
(* C14: from the handshake on, the Session's bufsize is BUFFER_HEADER_SIZE *)
(* (4096) plus the max_write its INIT reply advertised, which is the       *)
(* configured max_write: 16781312 on the defaults; no later operation      *)
(* changes it.                                                             *)
(***************************************************************************)
C14_Bufsize ==
    session /= <<>> =>
        LET m  == attempt.reply.body[1].max_write
            b  == session[1].bufsize
            lo == m[2] + 4096
        IN  /\ m = config.max_write
            /\ b = <<m[1] + (lo \div Limb), lo % Limb>>
            /\ m = <<256, 0>> => b = <<256, 4096>>

\* the Session of a max_write of u32::MAX has gone through the request
\* loop, ENODEV included, with its 4 GiB + 4095 buffer size
C14_Witness ==
    /\ session /= <<>> /\ config.max_write = U32_MAX
    /\ session[1].bufsize = <<65536, 4095>>
    /\ lastResult.kind = "eof" /\ yielded /= <<>>

\* ceil(max_write / page size)
CeilPages(max_write) ==
    WideDivPage(max_write) + (IF max_write[2] % pagesize = 0 THEN 0 ELSE 1)

(***************************************************************************)
(* C15: when the kernel's INIT flags contain MAX_PAGES, the reply sets     *)
(* MAX_PAGES and its max_pages is min(ceil(max_write / page size), 65535)  *)
(* for every configured max_write, 0 included; when they do not, the reply *)
(* does not set MAX_PAGES.                                                 *)
(***************************************************************************)
C15_MaxPages ==
    (ReadWholeInit /\ attempt.result = "session") =>
        LET out   == attempt.reply.body[1]
            pages == CeilPages(config.max_write)
        IN  IF FUSE_MAX_PAGES \in attempt.read.arg.flags
            THEN /\ FUSE_MAX_PAGES \in out.flags
                 /\ out.max_pages = (IF pages < 65535 THEN pages ELSE 65535)
            ELSE FUSE_MAX_PAGES \notin out.flags

(***************************************************************************)
(* C16: whenever the configuration's congestion_threshold is 0, the        *)
(* congestion threshold the INIT reply advertises and the Session stores   *)
(* is max_background * 3 / 4, whichever setters were called.               *)
(***************************************************************************)
C16_DerivedCongestionThreshold ==
    (ReadWholeInit /\ attempt.result = "session"
        /\ config.congestion_threshold = 0) =>
        /\ attempt.reply.body[1].congestion_threshold =
              (config.max_background * 3) \div 4
        /\ session[1].conn.congestion_threshold =
              (config.max_background * 3) \div 4

(***************************************************************************)
(* C17: a call of Config::congestion_threshold with a non-zero threshold   *)
(* above the max_background of that moment panics, and the Config keeps    *)
(* the values it had.                                                      *)
(***************************************************************************)
C17_ThresholdAboveBackgroundPanics ==
    [][(ncalls' = ncalls + 1 /\ call'.name = "congestion_threshold"
          /\ call'.arg[1] /= 0 /\ call'.arg[1] > config.max_background) =>
          (phase' = "panicked" /\ config' = config)]_vars

\* congestion_threshold(9) panicked on a max_background below 9 and the
\* threshold of the Config is not 9
C17_Witness ==
    /\ phase = "panicked" /\ call = Call("congestion_threshold", 9)
    /\ config.max_background < 9 /\ config.congestion_threshold /= 9

(***************************************************************************)
(* C18: once the caller has released its handle on the Session, the exit   *)
(* flag is set, so that whoever still holds the Session (a yielded         *)
(* Request) sees exited() = true.                                          *)
(***************************************************************************)
C18_ReleaseSetsExit ==
    (session /= <<>> /\ phase = "running" /\ ~owner) => exited(session[1])

(***************************************************************************)
(* C19: dropping the future of next_request while it is suspended in the   *)
(* read changes nothing of the Session and takes nothing from the channel: *)
(* no frame the kernel queued is missing after a cancelled call, and the   *)
(* next successful read yields the oldest pending frame.                   *)
(***************************************************************************)
C19_CancelSafe ==
    /\ [][(pc = "reading" /\ pc' = "idle" /\ cancelled') =>
             UNCHANGED <<session, owner, outstanding, dropped, chan, sent, delivered,
                         yielded, lastResult>>]_vars
    /\ [][(cancelled /\ ReaderTakes(0)) =>
             /\ yielded' = Append(yielded, Head(chan).frame)
             /\ lastResult'.kind = "request"
             /\ lastResult'.request = <<Head(chan).frame>>]_vars
    /\ [](cancelled => delivered = yielded \o PendingFrames)

\* a call was cancelled with a frame pending, and the next call is
\* suspended in its read with that frame still the oldest
C19_Witness ==
    /\ cancelled /\ pc = "reading"
    /\ chan /= <<>> /\ Head(chan).errno = 0
    /\ Head(chan).frame = delivered[Len(delivered)]
    /\ session /= <<>> /\ ~exited(session[1])

(***************************************************************************)
(* C20: after the handshake the connection metadata and the buffer size of *)
(* the Session never change, whatever next_request, exit, the holders of   *)
(* the Session and the kernel do; the exit flag is all that changes.       *)
(***************************************************************************)
C20_SessionImmutable ==
    [][session /= <<>> =>
          /\ session' /= <<>>
          /\ session'[1].conn = session[1].conn
          /\ session'[1].bufsize = session[1].bufsize]_vars

\* the Session has yielded a request that is still alive, has then seen
\* ENODEV and lost its owner, with the metadata the handshake stored
C20_Witness ==
    /\ session /= <<>> /\ outstanding > 0 /\ ~owner
    /\ lastResult.kind = "eof"
    /\ session[1].conn = stored_init_out(attempt.reply.body[1], attempt.read.arg)
    /\ session[1].bufsize = <<256, 4096>>

(***************************************************************************)
(* C21: every Request next_request has yielded owns a buffer whose length  *)
(* is the byte count its read returned, which is at most the bufsize of    *)
(* the Session; a read of 0 bytes is yielded as a Request like any other,  *)
(* not taken for the end of the stream.                                    *)
(***************************************************************************)
C21_RequestBufferLength ==
    /\ [](/\ Len(bufs) = Len(yielded)
          /\ \A i \in 1..Len(yielded) :
                /\ bufs[i] = <<0, yielded[i].len>>
                /\ ~WideLt(session[1].bufsize, bufs[i]))
    /\ [][ReaderTakes(0) =>
             /\ lastResult'.kind = "request"
             /\ Len(bufs') = Len(bufs) + 1
             /\ bufs'[Len(bufs')] = <<0, Head(chan).frame.len>>]_vars

\* the last call returned a Request for a read of 0 bytes, with an empty
\* buffer, after one for a read of 40 bytes; the Session is not exited
C21_Witness ==
    /\ Len(yielded) = 2 /\ bufs = << <<0, 40>>, <<0, 0>> >>
    /\ lastResult.kind = "request" /\ lastResult.request[1].len = 0
    /\ ~exited(session[1])

(***************************************************************************)
(* C22: in the loop of examples/hello every yielded request that decodes   *)
(* is answered, when the write succeeds, with one reply frame carrying the *)
(* unique of the request, before next_request is called again; a request   *)
(* that is none of Lookup, Getattr, Read, Readdir (an opcode that is not   *)
(* known included) gets the error ENOSYS and an empty body.  A request     *)
(* that does not decode, or a failed write, ends main with no reply.       *)
(***************************************************************************)
C22_HelloReplies ==
    /\ [](/\ Len(replies) <= Len(yielded)
          /\ Len(yielded) <= Len(replies) + 1
          /\ pc = "reading" => Len(replies) = Len(yielded)
          /\ \A i \in 1..Len(replies) :
                /\ replies[i].unique = yielded[i].unique
                /\ operation(yielded[i]).kind /= "error"
                /\ yielded[i].opcode \notin
                       {FUSE_LOOKUP, FUSE_GETATTR, FUSE_READ, FUSE_READDIR} =>
                       (replies[i].error = 0 - ENOSYS /\ replies[i].body = <<>>))
    /\ [][/\ Len(replies') \in {Len(replies), Len(replies) + 1}
          /\ SubSeq(replies', 1, Len(replies)) = replies
          /\ (Len(replies') = Len(replies) /\ hello' = "loop") =>
                 Len(yielded') >= Len(yielded)
          /\ (lastResult.kind = "request" /\ Len(replies) < Len(yielded)
                /\ hello' = "loop" /\ outstanding' < outstanding) =>
                 Len(replies') = Len(yielded)]_vars

\* main has answered a Lookup of hello.txt with success and a request of
\* opcode 9999 with ENOSYS, and is reading the next request
C22_Witness ==
    /\ Len(replies) = 2 /\ pc = "reading" /\ hello = "loop"
    /\ yielded[1].opcode = FUSE_LOOKUP /\ replies[1].error = 0
    /\ replies[1].body = <<"EntryOut">>
    /\ yielded[2].opcode = OPCODE_UNKNOWN
    /\ replies[2] = [unique |-> yielded[2].unique, error |-> 0 - ENOSYS, body |-> <<>>]

(***************************************************************************)
(* C23: in the handshake every frame read is answered by one frame handed  *)
(* to the writer (the INIT reply, the EPROTO error or the EIO error),      *)
(* which carries the unique of the frame just read; it is written before   *)
(* init() reads again and before the Session exists; a read or a write     *)
(* that fails ends Session::start with the error and no Session.           *)
(***************************************************************************)
C23_OneReplyPerHandshakeRead ==
    LET readFailed  == attempt.n > 0 /\ attempt.read = NoFrame
        writeFailed == attempt.n > 0 /\ attempt.read /= NoFrame /\ ~attempt.write_ok
    IN  /\ (attempt.n > 0 /\ ~readFailed) =>
              /\ attempt.reply.unique = attempt.read.unique
              /\ \/ attempt.reply.error = 0 /\ attempt.reply.body /= <<>>
                 \/ attempt.reply.error \in {0 - EPROTO, 0 - EIO}
                       /\ attempt.reply.body = <<>>
        /\ writes = (IF writeFailed THEN reads - 1 ELSE reads)
        /\ phase = "init" => (writes = reads /\ ~readFailed /\ ~writeFailed)
        /\ session /= <<>> =>
              (writes = reads /\ attempt.write_ok /\ attempt.reply.error = 0
                  /\ attempt.reply.body /= <<>>)
        /\ (readFailed \/ writeFailed) => (phase = "failed" /\ session = <<>>)

\* init() answered a first frame and read on, and wrote the INIT reply to
\* the second, whose unique it carries, before the Session existed
C23_Witness ==
    /\ session /= <<>> /\ reads = 2 /\ writes = 2
    /\ attempt.prior /= NoFrame
    /\ attempt.reply.unique = 2 /\ attempt.read.unique = 2

(***************************************************************************)
(* C24: what a handshake iteration writes and returns is decided by the    *)
(* bytes of the frame it read alone: it is what try_init gives on a fresh  *)
(* buffer holding that frame, whatever an earlier, longer frame left in    *)
(* the bootstrap buffer; and a read of an INIT header without a whole      *)
(* fuse_init_in after it does not produce a Session.                       *)
(***************************************************************************)
C24_NoStaleBytes ==
    (attempt.n > 0 /\ attempt.read /= NoFrame) =>
        LET fresh == try_init(config, read_into(buf_zeroed, attempt.read),
                              attempt.write_ok)
        IN  /\ attempt.reply = fresh.reply
            /\ attempt.result = fresh.result
            /\ attempt.result = "session" => session = fresh.session
            /\ (attempt.read.opcode = FUSE_INIT
                  /\ attempt.read.len < IN_HEADER_SIZE + INIT_IN_SIZE) =>
                   attempt.result /= "session"

(***************************************************************************)
(* C25: after any chain of Config setter calls that did not panic, the     *)
(* Config has congestion_threshold <= max_background, and so has every     *)
(* INIT reply written for it.                                              *)
(***************************************************************************)
C25_ThresholdAtMostBackground ==
    phase /= "panicked" =>
        /\ config.congestion_threshold <= config.max_background
        /\ (attempt.n > 0 /\ attempt.reply.body /= <<>>) =>
              attempt.reply.body[1].congestion_threshold
                  <= attempt.reply.body[1].max_background

(***************************************************************************)
(* C26: in examples/heartbeat the handler of the NotifyReply for unique u  *)
(* always finds the sender registered for u in retrieves, under every      *)
(* interleaving of the heartbeat task, main and the handler tasks; so      *)
(* notify_store is never left waiting, with the content lock held, for a   *)
(* reply that has already been thrown away.                                *)
(***************************************************************************)
C26_RetrieveCompleted ==
    /\ lost = {}
    /\ ~(beat.pc = "await" /\ inner = "notify_store" /\ beat.unique \in lost)

(***************************************************************************)
(* C27: Buffer::receive leaves recv_buf.len() defined in every outcome.    *)
(* A read that succeeds, after any number of ENOENT and EINTR failures     *)
(* retried, sets the length to its byte count and returns Ok(false);       *)
(* ENODEV returns Ok(true) and any other errno returns that error, and in  *)
(* both the length is the one before the call.                             *)
(***************************************************************************)
C27_ReceiveLength ==
    /\ [](rpc = "idle" /\ received.kind /= "none" =>
             /\ received.kind = "Ok(false)" =>
                    (received.errno = 0 /\ recv_len = Bytes(received.count))
             /\ received.kind = "Ok(true)" =>
                    (received.errno = ENODEV /\ recv_len = len_before)
             /\ received.kind = "Err" =>
                    (received.errno \notin {0, ENOENT, EINTR, ENODEV}
                        /\ recv_len = len_before)
             /\ ~recv_len.capacity)
    /\ [][(rpc = "reading" /\ io /= <<>> /\ io' = <<>>) =>
             LET o == io[1]
             IN  /\ o.errno = 0 =>
                       /\ rpc' = "idle" /\ recv_len' = Bytes(o.count)
                       /\ received' = [kind |-> "Ok(false)", errno |-> 0,
                                       count |-> o.count]
                 /\ o.errno \in {ENOENT, EINTR} =>
                       (rpc' = "reading" /\ received' = received)
                 /\ o.errno = ENODEV =>
                       /\ rpc' = "idle" /\ recv_len' = len_before
                       /\ received'.kind = "Ok(true)"
                 /\ o.errno \notin {0, ENOENT, EINTR, ENODEV} =>
                       /\ rpc' = "idle" /\ recv_len' = len_before
                       /\ received'.kind = "Err" /\ received'.errno = o.errno]_vars

\* the second call on a Buffer of length 40 retried two failed reads, read
\* 56 bytes and returned Ok(false)
C27_Witness ==
    /\ received.kind = "Ok(false)" /\ rpc = "idle"
    /\ retried = 2 /\ receives = 2
    /\ len_before = Bytes(40) /\ recv_len = Bytes(56)

====
